---------------------------- MODULE Spec2Model ----------------------------
(***************************************************************************)
(* A model of the default OpenAI generators of the simulated API           *)
(* (aoai_simulated_api/generator/openai.py): the deployment resolver with  *)
(* its process-wide warn-once set, the three request handlers              *)
(* (embeddings, completions, chat completions) cut at their awaits, and    *)
(* the streaming emitter send_words cut at its yields and its sleep.       *)
(*                                                                         *)
(* Python values are encoded as follows.  A str is a sequence of           *)
(* one-character strings, so that split and join are computed and not      *)
(* assumed.  A dict is a function whose DOMAIN is its key set.  A value    *)
(* that may be a str or a list (the embeddings "input") carries a type     *)
(* tag.  The 1536 random floats of an embedding are not enumerated: an     *)
(* embedding keeps its object tag, its index and the vector's length.      *)
(***************************************************************************)
EXTENDS Integers, Sequences, FiniteSets, TLC

(***************************************************************************)
(* Bounds of the model.                                                    *)
(***************************************************************************)
\* largest max_tokens a request body carries
MaxTokens == 4
\* longest list given as the embeddings input
MaxInputs == 2
\* number of direct calls of the resolver in SpecResolve
MaxCalls == 5
\* number of concurrent request tasks in SpecConc
NumTasks == 2

(***************************************************************************)
(* Program constants.                                                      *)
(***************************************************************************)
\* TOKEN_TO_WORD_FACTOR = 0.72, kept as the exact ratio 72 / 100.  For every
\* max_tokens in 0..4199 Python's int(0.72 * max_tokens) equals
\* (72 * max_tokens) \div 100, so the float product is computed exactly here.
TOKEN_TO_WORD_FACTOR_NUM == 72
TOKEN_TO_WORD_FACTOR_DEN == 100
default_embedding_size == 1536
DEFAULT_MAX_TOKENS == 4096
default_model == "gpt-3.5-turbo-0613"

SIMULATOR_KEY_LIMITER == "SIMULATOR_KEY_LIMITER"
SIMULATOR_KEY_OPERATION_NAME == "SIMULATOR_KEY_OPERATION_NAME"
SIMULATOR_KEY_DEPLOYMENT_NAME == "SIMULATOR_KEY_DEPLOYMENT_NAME"
SIMULATOR_KEY_OPENAI_COMPLETION_TOKENS == "SIMULATOR_KEY_OPENAI_COMPLETION_TOKENS"
SIMULATOR_KEY_OPENAI_TOTAL_TOKENS == "SIMULATOR_KEY_OPENAI_TOTAL_TOKENS"

(***************************************************************************)
(* Python's dict and str operations, as the handlers use them.             *)
(***************************************************************************)
EmptyDict == [k \in {} |-> 0]

\* d[key] = val
DictSet(d, key, val) ==
    [k \in DOMAIN d \cup {key} |-> IF k = key THEN val ELSE d[k]]

\* d.get(key, default)
DictGet(d, key, default) == IF key \in DOMAIN d THEN d[key] ELSE default

\* one str per element of parts, joined by the str sep
RECURSIVE PyJoin(_, _)
PyJoin(sep, parts) ==
    IF parts = <<>> THEN <<>>
    ELSE IF Len(parts) = 1 THEN parts[1]
    ELSE parts[1] \o sep \o PyJoin(sep, Tail(parts))

\* "".join(s) for a str s: the characters of s, concatenated
RECURSIVE PyJoinChars(_)
PyJoinChars(s) ==
    IF s = <<>> THEN <<>> ELSE <<Head(s)>> \o PyJoinChars(Tail(s))

\* s.split(c) for a one-character separator c: one more part than there are
\* separators in s, so "".split(" ") is [""]
RECURSIVE PySplitFrom(_, _, _)
PySplitFrom(s, c, cur) ==
    IF s = <<>> THEN <<cur>>
    ELSE IF Head(s) = c THEN <<cur>> \o PySplitFrom(Tail(s), c, <<>>)
    ELSE PySplitFrom(Tail(s), c, Append(cur, Head(s)))

PySplit(s, c) == PySplitFrom(s, c, <<>>)

\* int(TOKEN_TO_WORD_FACTOR * max_tokens), for max_tokens >= 0
words_to_generate(max_tokens) ==
    (TOKEN_TO_WORD_FACTOR_NUM * max_tokens) \div TOKEN_TO_WORD_FACTOR_DEN

(***************************************************************************)
(* The collaborators outside openai.py, at their interface.                *)
(***************************************************************************)
\* the filler words lorem draws from: none holds a space
LoremWords == {<<"a">>, <<"b", "b">>}

\* the texts a request may carry; "#" marks a value the tokenizer raises on
BadText == <<"#">>
Texts == {<<>>, <<"h", "i", " ", "u">>, BadText}

\* lorem.get_word(count=count): every str of count random words joined by one
\* space; the empty str for count = 0
get_word(count) ==
    {PyJoin(<<" ">>, ws) : ws \in [1..count -> LoremWords]}

TokenizerRaises(text) == \E i \in DOMAIN text : text[i] = "#"

\* num_tokens_from_string(string, model): deterministic, >= 0
RECURSIVE CountNonSpace(_)
CountNonSpace(text) ==
    IF text = <<>> THEN 0
    ELSE (IF Head(text) = " " THEN 0 ELSE 1) + CountNonSpace(Tail(text))

num_tokens_from_string(text, model) == CountNonSpace(text)

\* num_tokens_from_messages(messages, model): three tokens per message, the
\* tokens of its role and content, and three tokens priming the reply
RECURSIVE SumMessages(_, _)
SumMessages(messages, model) ==
    IF messages = <<>> THEN 0
    ELSE 3 + 1 + num_tokens_from_string(Head(messages).content, model)
           + SumMessages(Tail(messages), model)

MessagesRaise(messages) ==
    \E i \in DOMAIN messages : TokenizerRaises(messages[i].content)

num_tokens_from_messages(messages, model) == SumMessages(messages, model) + 3

\* context.is_route_match(request, path, methods): the request's path is the
\* template with {deployment} filled in, and its method is one of methods
is_route_match(request, route, methods) ==
    request.route = route /\ request.method \in methods

(***************************************************************************)
(* The inputs: deployment registries and inbound requests.                 *)
(***************************************************************************)
DeploymentNames == {"dep-a", "dep-x", "dep-y"}

\* context.config.openai_deployments: None, an empty dict, or a dict
Registries ==
    { [isNone |-> TRUE, map |-> EmptyDict],
      [isNone |-> FALSE, map |-> EmptyDict],
      [isNone |-> FALSE, map |-> [n \in {"dep-a"} |-> [model |-> "gpt-4"]]] }

VARIABLES
    deployments,                \* context.config.openai_deployments
    missing_deployment_names,   \* the module-level set
    warnings,                   \* deployment names logger.warning was called with
    calls,                      \* history: name and result of every resolver call
    pc,                         \* per task: where its handler or emitter stands
    handler,                    \* per task: the generator the request was given to
    request,                    \* per task: context.request
    values,                     \* per task: context.values
    locals,                     \* per task: the locals kept across an await
    result,                     \* per task: what the handler returned or raised
    stream                      \* per task: the items send_words has yielded

vars == <<deployments, missing_deployment_names, warnings, calls,
          pc, handler, request, values, locals, result, stream>>

taskVars == <<pc, handler, request, values, locals, result, stream>>

(***************************************************************************)
(* get_model_name_from_deployment_name                                     *)
(***************************************************************************)
\* `if deployments:` and `if deployment:` both hold
Registered(deps, deployment_name) ==
    /\ ~deps.isNone
    /\ DOMAIN deps.map # {}
    /\ deployment_name \in DOMAIN deps.map

\* The mutants of the resolver.
\* it warns on every miss, the set is not consulted
Resolve_WarnAlways(deps, missing, log, deployment_name) ==
    IF Registered(deps, deployment_name)
    THEN [ret |-> deps.map[deployment_name].model, missing |-> missing, log |-> log]
    ELSE [ret |-> default_model,
          missing |-> missing \cup {deployment_name},
          log |-> Append(log, deployment_name)]

\* it records every name it resolves, registered or not
Resolve_RecordsAll(deps, missing, log, deployment_name) ==
    IF Registered(deps, deployment_name)
    THEN [ret |-> deps.map[deployment_name].model,
          missing |-> missing \cup {deployment_name}, log |-> log]
    ELSE IF deployment_name \notin missing
    THEN [ret |-> default_model,
          missing |-> missing \cup {deployment_name},
          log |-> Append(log, deployment_name)]
    ELSE [ret |-> default_model, missing |-> missing, log |-> log]

\* it keeps only the last missing name
Resolve_KeepsLast(deps, missing, log, deployment_name) ==
    IF Registered(deps, deployment_name)
    THEN [ret |-> deps.map[deployment_name].model, missing |-> missing, log |-> log]
    ELSE IF deployment_name \notin missing
    THEN [ret |-> default_model,
          missing |-> {deployment_name},
          log |-> Append(log, deployment_name)]
    ELSE [ret |-> default_model, missing |-> missing, log |-> log]

\* The value returned, the set and the log after the call.
get_model_name_from_deployment_name(deps, missing, log, deployment_name) ==
    IF Registered(deps, deployment_name)
    THEN [ret |-> deps.map[deployment_name].model, missing |-> missing, log |-> log]
    ELSE IF deployment_name \notin missing
    THEN [ret |-> default_model,
          missing |-> missing \cup {deployment_name},
          log |-> Append(log, deployment_name)]
    ELSE [ret |-> default_model, missing |-> missing, log |-> log]

Tasks == 1..NumTasks

NoRequest == [route |-> "none", method |-> "none", deployment |-> "none",
              body |-> EmptyDict]
NoLocals == EmptyDict
Pending == [kind |-> "pending"]

Init ==
    /\ deployments \in Registries
    /\ missing_deployment_names = {}
    /\ warnings = <<>>
    /\ calls = <<>>
    /\ pc = [t \in Tasks |-> "idle"]
    /\ handler = [t \in Tasks |-> "none"]
    /\ request = [t \in Tasks |-> NoRequest]
    /\ values = [t \in Tasks |-> EmptyDict]
    /\ locals = [t \in Tasks |-> NoLocals]
    /\ result = [t \in Tasks |-> Pending]
    /\ stream = [t \in Tasks |-> <<>>]

(***************************************************************************)
(* What one atomic segment of a handler leaves behind: where the task      *)
(* stands, what it returned or raised, context.values, the locals it keeps *)
(* and the resolver's set and log.                                         *)
(***************************************************************************)
Outcome(p, res, vals, locs, missing, log) ==
    [pc |-> p, result |-> res, values |-> vals, locals |-> locs,
     missing |-> missing, log |-> log]

None == [kind |-> "None"]
KeyError(key) == [kind |-> "raise", exc |-> "KeyError", key |-> key]
TokenizerError == [kind |-> "raise", exc |-> "TokenizerError", key |-> ""]

\* Response(status_code=200, content=json.dumps(body), headers=...)
Response(body) ==
    [kind |-> "Response", status_code |-> 200, content |-> body,
     headers |-> [ContentType |-> "application/json"]]

StreamingResponse == [kind |-> "StreamingResponse"]

EMBEDDINGS_PATH == "/openai/deployments/{deployment}/embeddings"
COMPLETIONS_PATH == "/openai/deployments/{deployment}/completions"
CHAT_COMPLETIONS_PATH == "/openai/deployments/{deployment}/chat/completions"

content_filter_results ==
    [hate |-> [filtered |-> FALSE, severity |-> "safe"],
     self_harm |-> [filtered |-> FALSE, severity |-> "safe"],
     sexual |-> [filtered |-> FALSE, severity |-> "safe"],
     violence |-> [filtered |-> FALSE, severity |-> "safe"]]

(***************************************************************************)
(* azure_openai_embedding                                                  *)
(***************************************************************************)
_generate_embedding(index) ==
    [object |-> "embedding", index |-> index,
     embedding_len |-> default_embedding_size]

\* The mutant of the loop: the index is not advanced.
RECURSIVE embedding_loop_SameIndex(_, _, _, _, _)
embedding_loop_SameIndex(items, model_name, tokens, index, embeddings) ==
    IF items = <<>>
    THEN [raised |-> FALSE, tokens |-> tokens, embeddings |-> embeddings]
    ELSE IF TokenizerRaises(Head(items))
    THEN [raised |-> TRUE, tokens |-> tokens, embeddings |-> embeddings]
    ELSE embedding_loop_SameIndex(
             Tail(items), model_name,
             tokens + num_tokens_from_string(Head(items), model_name),
             index,
             Append(embeddings, _generate_embedding(index)))

\* for i in request_input: tokens += ...; embeddings.append(...); index += 1
RECURSIVE embedding_loop(_, _, _, _, _)
embedding_loop(items, model_name, tokens, index, embeddings) ==
    IF items = <<>>
    THEN [raised |-> FALSE, tokens |-> tokens, embeddings |-> embeddings]
    ELSE IF TokenizerRaises(Head(items))
    THEN [raised |-> TRUE, tokens |-> tokens, embeddings |-> embeddings]
    ELSE embedding_loop(
             Tail(items), model_name,
             tokens + num_tokens_from_string(Head(items), model_name),
             index + 1,
             Append(embeddings, _generate_embedding(index)))

\* The mutant of the publication: the total is left out.
publish_embedding_NoTotal(vals, deployment_name, tokens) ==
    DictSet(DictSet(DictSet(vals,
        SIMULATOR_KEY_LIMITER, "openai"),
        SIMULATOR_KEY_OPERATION_NAME, "embeddings"),
        SIMULATOR_KEY_DEPLOYMENT_NAME, deployment_name)

\* context.values[...] = ... of the embeddings handler
publish_embedding(vals, deployment_name, tokens) ==
    DictSet(DictSet(DictSet(DictSet(vals,
        SIMULATOR_KEY_LIMITER, "openai"),
        SIMULATOR_KEY_OPERATION_NAME, "embeddings"),
        SIMULATOR_KEY_DEPLOYMENT_NAME, deployment_name),
        SIMULATOR_KEY_OPENAI_TOTAL_TOKENS, tokens)

\* from the call to `await request.json()`
azure_openai_embedding_start(req, vals, missing, log) ==
    IF ~is_route_match(req, EMBEDDINGS_PATH, {"POST"})
    THEN {Outcome("returned", None, vals, NoLocals, missing, log)}
    ELSE {Outcome("await_json", Pending, vals,
                  [deployment_name |-> req.deployment], missing, log)}

\* The mutant of the rest: the routing keys are published before the input
\* is read.
azure_openai_embedding_resume_EarlyPublish(deps, req, vals, locs, missing, log) ==
    LET deployment_name == locs.deployment_name
        request_body == req.body
        r == get_model_name_from_deployment_name(deps, missing, log, deployment_name)
        model_name == r.ret
        early == publish_embedding_NoTotal(vals, deployment_name, 0)
    IN  IF "input" \notin DOMAIN request_body
        THEN {Outcome("raised", KeyError("input"), early, locs, r.missing, r.log)}
        ELSE
        LET request_input == request_body["input"]
            counted ==
                IF request_input.type = "str"
                THEN [raised |-> TokenizerRaises(request_input.v[1]),
                      tokens |-> num_tokens_from_string(request_input.v[1], model_name),
                      embeddings |-> <<_generate_embedding(0)>>]
                ELSE embedding_loop(request_input.v, model_name, 0, 0, <<>>)
        IN  IF counted.raised
            THEN {Outcome("raised", TokenizerError, early, locs, r.missing, r.log)}
            ELSE
            LET response_data ==
                    [object |-> "list", data |-> counted.embeddings, model |-> "ada",
                     usage |-> [prompt_tokens |-> counted.tokens,
                                total_tokens |-> counted.tokens]]
            IN {Outcome("returned", Response(response_data),
                        publish_embedding(vals, deployment_name, counted.tokens),
                        locs, r.missing, r.log)}

\* from the parsed body to the return
azure_openai_embedding_resume(deps, req, vals, locs, missing, log) ==
    LET deployment_name == locs.deployment_name
        request_body == req.body
        r == get_model_name_from_deployment_name(deps, missing, log, deployment_name)
        model_name == r.ret
    IN  IF "input" \notin DOMAIN request_body
        THEN {Outcome("raised", KeyError("input"), vals, locs, r.missing, r.log)}
        ELSE
        LET request_input == request_body["input"]
            counted ==
                IF request_input.type = "str"
                THEN [raised |-> TokenizerRaises(request_input.v[1]),
                      tokens |-> num_tokens_from_string(request_input.v[1], model_name),
                      embeddings |-> <<_generate_embedding(0)>>]
                ELSE embedding_loop(request_input.v, model_name, 0, 0, <<>>)
        IN  IF counted.raised
            THEN {Outcome("raised", TokenizerError, vals, locs, r.missing, r.log)}
            ELSE
            LET response_data ==
                    [object |-> "list", data |-> counted.embeddings, model |-> "ada",
                     usage |-> [prompt_tokens |-> counted.tokens,
                                total_tokens |-> counted.tokens]]
            IN {Outcome("returned", Response(response_data),
                        publish_embedding(vals, deployment_name, counted.tokens),
                        locs, r.missing, r.log)}

(***************************************************************************)
(* azure_openai_completion                                                 *)
(***************************************************************************)
\* The mutant of the publication: the completion count is stored as the total.
publish_completion_WrongTotal(vals, deployment_name, completion_tokens, total_tokens) ==
    DictSet(DictSet(DictSet(DictSet(DictSet(vals,
        SIMULATOR_KEY_LIMITER, "openai"),
        SIMULATOR_KEY_OPERATION_NAME, "completions"),
        SIMULATOR_KEY_DEPLOYMENT_NAME, deployment_name),
        SIMULATOR_KEY_OPENAI_COMPLETION_TOKENS, completion_tokens),
        SIMULATOR_KEY_OPENAI_TOTAL_TOKENS, completion_tokens)

\* context.values[...] = ... of the completions handler
publish_completion(vals, deployment_name, completion_tokens, total_tokens) ==
    DictSet(DictSet(DictSet(DictSet(DictSet(vals,
        SIMULATOR_KEY_LIMITER, "openai"),
        SIMULATOR_KEY_OPERATION_NAME, "completions"),
        SIMULATOR_KEY_DEPLOYMENT_NAME, deployment_name),
        SIMULATOR_KEY_OPENAI_COMPLETION_TOKENS, completion_tokens),
        SIMULATOR_KEY_OPENAI_TOTAL_TOKENS, total_tokens)

\* The mutant of the start: the model is resolved before the route is tested.
azure_openai_completion_start_ResolveFirst(deps, req, vals, missing, log) ==
    LET deployment_name == req.deployment
        r == get_model_name_from_deployment_name(deps, missing, log, deployment_name)
    IN  IF ~is_route_match(req, COMPLETIONS_PATH, {"POST"})
        THEN {Outcome("returned", None, vals, NoLocals, r.missing, r.log)}
        ELSE {Outcome("await_json", Pending, vals,
                      [deployment_name |-> deployment_name, model_name |-> r.ret],
                      r.missing, r.log)}

\* from the call to `await request.json()`: the model is resolved before the
\* body is awaited
azure_openai_completion_start(deps, req, vals, missing, log) ==
    IF ~is_route_match(req, COMPLETIONS_PATH, {"POST"})
    THEN {Outcome("returned", None, vals, NoLocals, missing, log)}
    ELSE
    LET deployment_name == req.deployment
        r == get_model_name_from_deployment_name(deps, missing, log, deployment_name)
    IN {Outcome("await_json", Pending, vals,
                [deployment_name |-> deployment_name, model_name |-> r.ret],
                r.missing, r.log)}

\* from the parsed body to the return; one outcome per text lorem may draw
azure_openai_completion_resume(req, vals, locs, missing, log) ==
    LET deployment_name == locs.deployment_name
        model_name == locs.model_name
        request_body == req.body
    IN  IF "prompt" \notin DOMAIN request_body
        THEN {Outcome("raised", KeyError("prompt"), vals, locs, missing, log)}
        ELSE IF TokenizerRaises(request_body["prompt"])
        THEN {Outcome("raised", TokenizerError, vals, locs, missing, log)}
        ELSE
        LET prompt_tokens == num_tokens_from_string(request_body["prompt"], model_name)
            max_tokens == DictGet(request_body, "max_tokens", DEFAULT_MAX_TOKENS)
            count == words_to_generate(max_tokens)
        IN  { LET text == PyJoinChars(words)
                  completion_tokens == num_tokens_from_string(text, model_name)
                  total_tokens == prompt_tokens + completion_tokens
                  response_body ==
                      [id_prefix |-> "cmpl-", object |-> "text_completion",
                       model |-> model_name,
                       choices |-> <<[text |-> text, index |-> 0,
                                      finish_reason |-> "length"]>>,
                       usage |-> [prompt_tokens |-> prompt_tokens,
                                  completion_tokens |-> completion_tokens,
                                  total_tokens |-> total_tokens]]
              IN Outcome("returned", Response(response_body),
                         publish_completion(vals, deployment_name,
                                            completion_tokens, total_tokens),
                         locs, missing, log)
              : words \in get_word(count) }

(***************************************************************************)
(* azure_openai_chat_completion                                            *)
(***************************************************************************)
\* context.values[...] = ... of the chat completions handler
publish_chat_completion(vals, deployment_name, completion_tokens, total_tokens) ==
    DictSet(DictSet(DictSet(DictSet(DictSet(vals,
        SIMULATOR_KEY_LIMITER, "openai"),
        SIMULATOR_KEY_OPERATION_NAME, "chat-completions"),
        SIMULATOR_KEY_DEPLOYMENT_NAME, deployment_name),
        SIMULATOR_KEY_OPENAI_COMPLETION_TOKENS, completion_tokens),
        SIMULATOR_KEY_OPENAI_TOTAL_TOKENS, total_tokens)

\* from the call to `await request.json()`
azure_openai_chat_completion_start(req, vals, missing, log) ==
    IF ~is_route_match(req, CHAT_COMPLETIONS_PATH, {"POST"})
    THEN {Outcome("returned", None, vals, NoLocals, missing, log)}
    ELSE {Outcome("await_json", Pending, vals, NoLocals, missing, log)}

\* from the parsed body to the return; one outcome per text lorem may draw.
\* With stream truthy the handler returns the StreamingResponse over
\* send_words(), whose closure holds words and model_name.
azure_openai_chat_completion_resume(deps, req, vals, locs, missing, log) ==
    LET request_body == req.body
        deployment_name == req.deployment
        r == get_model_name_from_deployment_name(deps, missing, log, deployment_name)
        model_name == r.ret
    IN  IF "messages" \notin DOMAIN request_body
        THEN {Outcome("raised", KeyError("messages"), vals, locs, r.missing, r.log)}
        ELSE IF MessagesRaise(request_body["messages"])
        THEN {Outcome("raised", TokenizerError, vals, locs, r.missing, r.log)}
        ELSE
        LET prompt_tokens ==
                num_tokens_from_messages(request_body["messages"], model_name)
            max_tokens == DictGet(request_body, "max_tokens", DEFAULT_MAX_TOKENS)
            count == words_to_generate(max_tokens)
        IN  { IF DictGet(request_body, "stream", FALSE)
              THEN Outcome("gen_start", StreamingResponse, vals,
                           [words |-> words, model_name |-> model_name],
                           r.missing, r.log)
              ELSE
              LET text == PyJoinChars(words)
                  completion_tokens == num_tokens_from_string(text, model_name)
                  total_tokens == prompt_tokens + completion_tokens
                  response_body ==
                      [id_prefix |-> "chatcmpl-", object |-> "chat.completion",
                       model |-> model_name,
                       prompt_filter_results |->
                           <<[prompt_index |-> 0,
                              content_filter_results |-> content_filter_results]>>,
                       choices |->
                           <<[finish_reason |-> "length", index |-> 0,
                              message |-> [role |-> "assistant", content |-> text],
                              content_filter_results |-> content_filter_results]>>,
                       usage |-> [prompt_tokens |-> prompt_tokens,
                                  completion_tokens |-> completion_tokens,
                                  total_tokens |-> total_tokens]]
              IN Outcome("returned", Response(response_body),
                         publish_chat_completion(vals, deployment_name,
                                                 completion_tokens, total_tokens),
                         locs, r.missing, r.log)
              : words \in get_word(count) }

(***************************************************************************)
(* send_words, the generator behind the StreamingResponse.  It is          *)
(* suspended at a yield (gen_data, gen_blank, gen_done) or in              *)
(* asyncio.sleep (gen_sleep); gen_start is the generator not yet iterated. *)
(***************************************************************************)
\* "data: " + json.dumps({... "delta": {"content": space + word ...},
\*                        "message": {"content": word}}) + "\n"
DataItem(model_name, space, word) ==
    [text |-> "data: {chunk}\n",
     chunk |-> [id_prefix |-> "chatcmpl-", object |-> "chat.completion.chunk",
                model_name |-> model_name,
                delta_content |-> space \o word,
                message_content |-> word]]

BlankItem == [text |-> "\n"]
DoneItem == [text |-> "[DONE]"]

\* one turn of `for word in words.split(" ")`, up to its first yield, or the
\* yield of "[DONE]" when the words are used up
send_words_iterate(locs, space, rest, emitted) ==
    IF rest = <<>>
    THEN [pc |-> "gen_done",
          locals |-> [words |-> locs.words, model_name |-> locs.model_name,
                      space |-> space, rest |-> rest],
          stream |-> Append(emitted, DoneItem)]
    ELSE [pc |-> "gen_data",
          locals |-> [words |-> locs.words, model_name |-> locs.model_name,
                      space |-> space, rest |-> Tail(rest)],
          stream |-> Append(emitted, DataItem(locs.model_name, space, Head(rest)))]

\* The mutant of a close: the generator yields "[DONE]" on its way out.
send_words_closed_SendsDone(emitted) == Append(emitted, DoneItem)

\* A close (aclose() at a yield, cancellation in the sleep) raises inside the
\* generator, which has no try, except or finally: it ends there and yields
\* nothing more.
send_words_closed(emitted) == emitted

(***************************************************************************)
(* The resolver called on its own, any name after any other.               *)
(***************************************************************************)
Resolve(deployment_name) ==
    LET r == get_model_name_from_deployment_name(
                 deployments, missing_deployment_names, warnings, deployment_name)
    IN /\ Len(calls) < MaxCalls
       /\ missing_deployment_names' = r.missing
       /\ warnings' = r.log
       /\ calls' = Append(calls, [name |-> deployment_name, ret |-> r.ret])
       /\ UNCHANGED <<deployments, taskVars>>

NextResolve == \E n \in DeploymentNames : Resolve(n)

SpecResolve == Init /\ [][NextResolve]_vars

(***************************************************************************)
(* Properties of the resolver.                                             *)
(***************************************************************************)
WarningCount(n) == Cardinality({i \in DOMAIN warnings : warnings[i] = n})
CallCount(n) == Cardinality({i \in DOMAIN calls : calls[i].name = n})

\* C1: a deployment name absent from the registry (or any name, when the
\* registry is None or empty) gets the default model from every call of the
\* resolver, and exactly one warning once it has been resolved at all, however
\* often it is resolved and whatever names are resolved in between.
C1_DefaultAndWarnOnce ==
    \A n \in DeploymentNames :
        ~Registered(deployments, n) =>
            /\ \A i \in DOMAIN calls :
                   calls[i].name = n => calls[i].ret = default_model
            /\ WarningCount(n) = IF CallCount(n) > 0 THEN 1 ELSE 0

\* an unregistered name resolved, then another name, then the first again,
\* with a registry that holds some other name
C1_Witness ==
    /\ DOMAIN deployments.map # {}
    /\ Len(calls) >= 3
    /\ calls[1].name = "dep-x"
    /\ calls[2].name = "dep-y"
    /\ calls[3].name = "dep-x"
    /\ WarningCount("dep-x") = 1

\* C8: a call of the resolver with a registered name returns that
\* deployment's model, leaves the missing set as it was and logs no warning,
\* whatever calls came before.
C8_RegisteredLeavesSetAlone ==
    [][(Len(calls') = Len(calls) + 1
        /\ Registered(deployments, calls'[Len(calls')].name))
       => /\ calls'[Len(calls')].ret
               = deployments.map[calls'[Len(calls')].name].model
          /\ missing_deployment_names' = missing_deployment_names
          /\ warnings' = warnings]_vars

\* a registered name resolved after a missing name was recorded
C8_Witness ==
    /\ Len(calls) >= 2
    /\ calls[1].name = "dep-x"
    /\ calls[2].name = "dep-a"
    /\ Registered(deployments, "dep-a")
    /\ calls[2].ret = "gpt-4"
    /\ missing_deployment_names = {"dep-x"}


(***************************************************************************)
(* Inbound requests.                                                       *)
(***************************************************************************)
PyStr(t) == [type |-> "str", v |-> <<t>>]
PyList(l) == [type |-> "list", v |-> l]

InputLists == UNION {[1..n -> Texts] : n \in 0..MaxInputs}
Inputs == {PyStr(t) : t \in Texts} \cup {PyList(l) : l \in InputLists}
MessageLists ==
    {<<>>} \cup {<<[role |-> "user", content |-> t]>> : t \in Texts}

\* A body carries max_tokens: the default of 4096 would draw 2949 words.
Bodies ==
    {EmptyDict}
    \cup {[input |-> i] : i \in Inputs}
    \cup {[prompt |-> p, max_tokens |-> m] : p \in Texts, m \in 0..MaxTokens}
    \cup {[messages |-> ms, max_tokens |-> m] :
              ms \in MessageLists, m \in 0..MaxTokens}
    \cup {[messages |-> ms, max_tokens |-> m, stream |-> st] :
              ms \in MessageLists, m \in 0..MaxTokens, st \in BOOLEAN}

Routes == {EMBEDDINGS_PATH, COMPLETIONS_PATH, CHAT_COMPLETIONS_PATH,
           "/openai/deployments/{deployment}/other"}

Requests ==
    [route : Routes, method : {"POST", "GET"},
     deployment : DeploymentNames, body : Bodies]

\* The requests of the concurrent tasks.  A handler is given the requests of
\* its own route, a GET on its own route, and the requests of the route that
\* follows in the order the handlers are tried.
ConcText == <<"h", "i", " ", "u">>
ConcNames == {"dep-a", "dep-x"}
ConcBodies(route) ==
    IF route = EMBEDDINGS_PATH THEN {[input |-> PyStr(ConcText)]}
    ELSE IF route = COMPLETIONS_PATH
    THEN {[prompt |-> ConcText, max_tokens |-> 2]}
    ELSE {[messages |-> <<[role |-> "user", content |-> ConcText]>>,
           max_tokens |-> 2, stream |-> st] : st \in BOOLEAN}

NextRoute(route) ==
    IF route = EMBEDDINGS_PATH THEN COMPLETIONS_PATH
    ELSE IF route = COMPLETIONS_PATH THEN CHAT_COMPLETIONS_PATH
    ELSE EMBEDDINGS_PATH

ConcRequests(route) ==
    [route : {route}, method : {"POST", "GET"},
     deployment : ConcNames, body : ConcBodies(route)]
    \cup [route : {NextRoute(route)}, method : {"POST"},
          deployment : ConcNames, body : ConcBodies(NextRoute(route))]

(***************************************************************************)
(* The steps of a request task.                                            *)
(***************************************************************************)
Apply(t, o) ==
    /\ pc' = [pc EXCEPT ![t] = o.pc]
    /\ result' = [result EXCEPT ![t] = o.result]
    /\ values' = [values EXCEPT ![t] = o.values]
    /\ locals' = [locals EXCEPT ![t] = o.locals]
    /\ missing_deployment_names' = o.missing
    /\ warnings' = o.log

EmbeddingStart(t, reqs) ==
    /\ pc[t] = "idle"
    /\ \E req \in reqs :
           /\ handler' = [handler EXCEPT ![t] = "azure_openai_embedding"]
           /\ request' = [request EXCEPT ![t] = req]
           /\ \E o \in azure_openai_embedding_start(
                    req, values[t], missing_deployment_names, warnings) :
                  Apply(t, o)
    /\ UNCHANGED <<deployments, calls, stream>>

EmbeddingResume(t) ==
    /\ pc[t] = "await_json"
    /\ handler[t] = "azure_openai_embedding"
    /\ \E o \in azure_openai_embedding_resume(
                    deployments, request[t], values[t], locals[t],
                    missing_deployment_names, warnings) :
           Apply(t, o)
    /\ UNCHANGED <<deployments, calls, stream, handler, request>>

CompletionStart(t, reqs) ==
    /\ pc[t] = "idle"
    /\ \E req \in reqs :
           /\ handler' = [handler EXCEPT ![t] = "azure_openai_completion"]
           /\ request' = [request EXCEPT ![t] = req]
           /\ \E o \in azure_openai_completion_start(
                    deployments, req, values[t], missing_deployment_names,
                    warnings) :
                  Apply(t, o)
    /\ UNCHANGED <<deployments, calls, stream>>

CompletionResume(t) ==
    /\ pc[t] = "await_json"
    /\ handler[t] = "azure_openai_completion"
    /\ \E o \in azure_openai_completion_resume(
                    request[t], values[t], locals[t],
                    missing_deployment_names, warnings) :
           Apply(t, o)
    /\ UNCHANGED <<deployments, calls, stream, handler, request>>

ChatCompletionStart(t, reqs) ==
    /\ pc[t] = "idle"
    /\ \E req \in reqs :
           /\ handler' = [handler EXCEPT ![t] = "azure_openai_chat_completion"]
           /\ request' = [request EXCEPT ![t] = req]
           /\ \E o \in azure_openai_chat_completion_start(
                    req, values[t], missing_deployment_names, warnings) :
                  Apply(t, o)
    /\ UNCHANGED <<deployments, calls, stream>>

ChatCompletionResume(t) ==
    /\ pc[t] = "await_json"
    /\ handler[t] = "azure_openai_chat_completion"
    /\ \E o \in azure_openai_chat_completion_resume(
                    deployments, request[t], values[t], locals[t],
                    missing_deployment_names, warnings) :
           Apply(t, o)
    /\ UNCHANGED <<deployments, calls, stream, handler, request>>

GenStep(t, g) ==
    /\ pc' = [pc EXCEPT ![t] = g.pc]
    /\ locals' = [locals EXCEPT ![t] = g.locals]
    /\ stream' = [stream EXCEPT ![t] = g.stream]
    /\ UNCHANGED <<deployments, missing_deployment_names, warnings, calls,
                   handler, request, values, result>>

\* the first __anext__: space = "", the split, the first word's data line
SendWordsFirst(t) ==
    /\ pc[t] = "gen_start"
    /\ GenStep(t, send_words_iterate(locals[t], <<>>,
                                     PySplit(locals[t].words, " "), stream[t]))

\* yield "\n"
SendWordsBlank(t) ==
    /\ pc[t] = "gen_data"
    /\ GenStep(t, [pc |-> "gen_blank", locals |-> locals[t],
                   stream |-> Append(stream[t], BlankItem)])

\* await asyncio.sleep(0.05)
SendWordsSleep(t) ==
    /\ pc[t] = "gen_blank"
    /\ GenStep(t, [pc |-> "gen_sleep", locals |-> locals[t],
                   stream |-> stream[t]])

\* the sleep is over: space = " ", then the next word or "[DONE]"
SendWordsNext(t) ==
    /\ pc[t] = "gen_sleep"
    /\ GenStep(t, send_words_iterate(locals[t], <<" ">>, locals[t].rest,
                                     stream[t]))

\* resumed after "[DONE]": the generator returns
SendWordsEnd(t) ==
    /\ pc[t] = "gen_done"
    /\ GenStep(t, [pc |-> "gen_ended", locals |-> locals[t],
                   stream |-> stream[t]])

IsData(item) == item.text = "data: {chunk}\n"
DataItems(items) == SelectSeq(items, IsData)

\* the consumer goes away while the generator is suspended; closed_after
\* and closed_at record how many words had been sent by then, and where the
\* generator stood
SendWordsClose(t) ==
    /\ pc[t] \in {"gen_start", "gen_data", "gen_blank", "gen_sleep", "gen_done"}
    /\ GenStep(t, [pc |-> "gen_closed",
                   locals |-> DictSet(DictSet(locals[t],
                                  "closed_after", Len(DataItems(stream[t]))),
                                  "closed_at", pc[t]),
                   stream |-> send_words_closed(stream[t])])

(***************************************************************************)
(* One request, of any shape, given to any of the three handlers.          *)
(***************************************************************************)
Next ==
    \/ EmbeddingStart(1, Requests)
    \/ CompletionStart(1, Requests)
    \/ ChatCompletionStart(1, Requests)
    \/ EmbeddingResume(1)
    \/ CompletionResume(1)
    \/ ChatCompletionResume(1)
    \/ SendWordsFirst(1)
    \/ SendWordsBlank(1)
    \/ SendWordsSleep(1)
    \/ SendWordsNext(1)
    \/ SendWordsEnd(1)
    \/ SendWordsClose(1)

Spec == Init /\ [][Next]_vars

(***************************************************************************)
(* Concurrent requests: one cooperative task each, interleaved at the      *)
(* awaits, the yields and the sleep.                                       *)
(***************************************************************************)
NextConc ==
    \E t \in Tasks :
        \/ EmbeddingStart(t, ConcRequests(EMBEDDINGS_PATH))
        \/ CompletionStart(t, ConcRequests(COMPLETIONS_PATH))
        \/ ChatCompletionStart(t, ConcRequests(CHAT_COMPLETIONS_PATH))
        \/ EmbeddingResume(t)
        \/ CompletionResume(t)
        \/ ChatCompletionResume(t)
        \/ SendWordsFirst(t)
        \/ SendWordsBlank(t)
        \/ SendWordsSleep(t)
        \/ SendWordsNext(t)
        \/ SendWordsEnd(t)

SpecConc == Init /\ [][NextConc]_vars

(***************************************************************************)
(* Properties of the handlers.                                             *)
(***************************************************************************)
RouteOf(h) ==
    IF h = "azure_openai_embedding" THEN EMBEDDINGS_PATH
    ELSE IF h = "azure_openai_completion" THEN COMPLETIONS_PATH
    ELSE CHAT_COMPLETIONS_PATH

OperationName(h) ==
    IF h = "azure_openai_embedding" THEN "embeddings"
    ELSE IF h = "azure_openai_completion" THEN "completions"
    ELSE "chat-completions"

Matched(t) ==
    /\ handler[t] # "none"
    /\ is_route_match(request[t], RouteOf(handler[t]), {"POST"})

\* the handler has returned or raised
Handled(t) == pc[t] \notin {"idle", "await_json"}

Published(t) ==
    /\ {SIMULATOR_KEY_LIMITER, SIMULATOR_KEY_OPERATION_NAME,
        SIMULATOR_KEY_DEPLOYMENT_NAME, SIMULATOR_KEY_OPENAI_TOTAL_TOKENS}
           \subseteq DOMAIN values[t]
    /\ values[t][SIMULATOR_KEY_LIMITER] = "openai"
    /\ values[t][SIMULATOR_KEY_OPERATION_NAME] = OperationName(handler[t])
    /\ values[t][SIMULATOR_KEY_DEPLOYMENT_NAME] = request[t].deployment
    /\ handler[t] # "azure_openai_embedding"
           => SIMULATOR_KEY_OPENAI_COMPLETION_TOKENS \in DOMAIN values[t]

\* C2: every matched request whose handler has returned its response, the
\* streaming response of a chat completion included, has the limiter key, the
\* operation name, the deployment name and total_tokens in context.values,
\* and completion_tokens too on the completion and chat completion routes.
C2_ResponsePublishes ==
    \A t \in Tasks :
        result[t].kind \in {"Response", "StreamingResponse"} => Published(t)

\* the part of C2 that the code keeps: the responses that are not streams
C2_PlainResponsePublishes ==
    \A t \in Tasks : result[t].kind = "Response" => Published(t)

MaxTokensOf(t) == DictGet(request[t].body, "max_tokens", DEFAULT_MAX_TOKENS)

IsDone(item) == item.text = "[DONE]"

\* the data chunks of items carry the words ws: the first as it is, every
\* later one after one space
CarriesWords(items, ws) ==
    /\ Len(DataItems(items)) = Len(ws)
    /\ \A i \in DOMAIN ws :
           DataItems(items)[i].chunk.delta_content
               = (IF i = 1 THEN <<>> ELSE <<" ">>) \o ws[i]

\* C3: a stream consumed to its end, over a filler text of
\* W = floor(0.72 * max_tokens) words, W = 0 included, holds W data chunks,
\* the i-th carrying the i-th word (after one space for i >= 2), and "[DONE]"
\* once, as its last item.
C3_StreamCarriesTheWords ==
    \A t \in Tasks :
        pc[t] = "gen_ended" =>
            /\ \E ws \in [1..words_to_generate(MaxTokensOf(t)) -> LoremWords] :
                   /\ PyJoin(<<" ">>, ws) = locals[t].words
                   /\ CarriesWords(stream[t], ws)
            /\ Len(SelectSeq(stream[t], IsDone)) = 1
            /\ IsDone(stream[t][Len(stream[t])])

\* the part of C3 that the code keeps: the streams of one word or more
C3_NonEmptyStreamCarriesTheWords ==
    \A t \in Tasks :
        (pc[t] = "gen_ended" /\ words_to_generate(MaxTokensOf(t)) >= 1) =>
            /\ \E ws \in [1..words_to_generate(MaxTokensOf(t)) -> LoremWords] :
                   /\ PyJoin(<<" ">>, ws) = locals[t].words
                   /\ CarriesWords(stream[t], ws)
            /\ Len(SelectSeq(stream[t], IsDone)) = 1
            /\ IsDone(stream[t][Len(stream[t])])

\* C4: a handler given a request that does not match its route returns None
\* at once, without awaiting the body, and leaves context.values, the missing
\* set and the warning log as they were.
C4_MismatchChangesNothing ==
    [][\A t \in Tasks :
          (pc[t] = "idle" /\ pc'[t] # "idle"
           /\ ~is_route_match(request'[t], RouteOf(handler'[t]), {"POST"}))
          => /\ pc'[t] = "returned"
             /\ result'[t] = None
             /\ values'[t] = values[t]
             /\ missing_deployment_names' = missing_deployment_names
             /\ warnings' = warnings]_vars

\* the completions handler turned away a GET on its own route, for a
\* deployment not yet seen, after another request had a name recorded
C4_Witness ==
    \E t \in Tasks :
        /\ handler[t] = "azure_openai_completion"
        /\ request[t].route = COMPLETIONS_PATH
        /\ request[t].method = "GET"
        /\ request[t].deployment = "dep-a"
        /\ result[t] = None
        /\ missing_deployment_names = {"dep-x"}

RECURSIVE SumTokens(_, _)
SumTokens(items, model_name) ==
    IF items = <<>> THEN 0
    ELSE num_tokens_from_string(Head(items), model_name)
         + SumTokens(Tail(items), model_name)

ModelOf(t) ==
    IF Registered(deployments, request[t].deployment)
    THEN deployments.map[request[t].deployment].model
    ELSE default_model

\* C5: the embeddings response to a list of N strings holds N embeddings with
\* index 0..N-1 in order, and prompt_tokens is the sum of the items' token
\* counts and equals total_tokens; the response to one string holds one
\* embedding with index 0, and prompt_tokens = total_tokens = its token count.
C5_EmbeddingsPerInput ==
    \A t \in Tasks :
        (handler[t] = "azure_openai_embedding" /\ result[t].kind = "Response") =>
            LET input == request[t].body["input"]
                data == result[t].content.data
                usage == result[t].content.usage
            IN  /\ usage.prompt_tokens = usage.total_tokens
                /\ IF input.type = "str"
                   THEN /\ Len(data) = 1
                        /\ data[1].index = 0
                        /\ usage.prompt_tokens
                               = num_tokens_from_string(input.v[1], ModelOf(t))
                   ELSE /\ Len(data) = Len(input.v)
                        /\ \A i \in DOMAIN data : data[i].index = i - 1
                        /\ usage.prompt_tokens = SumTokens(input.v, ModelOf(t))

\* the response to a list of two strings
C5_Witness ==
    /\ handler[1] = "azure_openai_embedding"
    /\ result[1].kind = "Response"
    /\ request[1].body["input"].type = "list"
    /\ Len(request[1].body["input"].v) = 2
    /\ Len(result[1].content.data) = 2
    /\ result[1].content.usage.prompt_tokens = 6

\* C6: in the response to a text completion or to a chat completion that is
\* not streamed, total_tokens = prompt_tokens + completion_tokens, and the
\* total_tokens and completion_tokens in context.values are those of the
\* response; for embeddings the total_tokens in context.values is the
\* response's prompt_tokens.
C6_UsageAddsUpAndIsPublished ==
    \A t \in Tasks :
        result[t].kind = "Response" =>
            LET usage == result[t].content.usage
            IN  IF handler[t] = "azure_openai_embedding"
                THEN values[t][SIMULATOR_KEY_OPENAI_TOTAL_TOKENS]
                         = usage.prompt_tokens
                ELSE /\ usage.total_tokens
                            = usage.prompt_tokens + usage.completion_tokens
                     /\ values[t][SIMULATOR_KEY_OPENAI_TOTAL_TOKENS]
                            = usage.total_tokens
                     /\ values[t][SIMULATOR_KEY_OPENAI_COMPLETION_TOKENS]
                            = usage.completion_tokens

\* a text completion with tokens in the prompt and in the completion
C6_Witness ==
    /\ handler[1] = "azure_openai_completion"
    /\ result[1].kind = "Response"
    /\ result[1].content.usage.prompt_tokens = 3
    /\ result[1].content.usage.completion_tokens = 3
    /\ values[1][SIMULATOR_KEY_OPENAI_TOTAL_TOKENS] = 6

C9_WarnOnceUnderInterleaving ==
    /\ [](\A n \in DeploymentNames : WarningCount(n) <= 1)
    /\ [][missing_deployment_names \subseteq missing_deployment_names']_vars

\* a completion task that resolved dep-x waits for its body while an
\* embeddings task resolves dep-x again, and dep-a is recorded as well
C9_Witness ==
    \E t, u \in Tasks :
        /\ handler[t] = "azure_openai_completion"
        /\ pc[t] = "await_json"
        /\ locals[t].deployment_name = "dep-x"
        /\ handler[u] = "azure_openai_embedding"
        /\ pc[u] = "returned"
        /\ Matched(u)
        /\ request[u].deployment = "dep-x"
        /\ WarningCount("dep-x") = 1

\* the request lacks the field its handler reads, or holds a text the
\* tokenizer raises on
Fails(t) ==
    LET body == request[t].body
    IN  IF handler[t] = "azure_openai_embedding"
        THEN \/ "input" \notin DOMAIN body
             \/ \E i \in DOMAIN body["input"].v :
                    TokenizerRaises(body["input"].v[i])
        ELSE IF handler[t] = "azure_openai_completion"
        THEN \/ "prompt" \notin DOMAIN body
             \/ TokenizerRaises(body["prompt"])
        ELSE \/ "messages" \notin DOMAIN body
             \/ MessagesRaise(body["messages"])

\* C10: a matched request that lacks its required field, or on which the
\* tokenizer fails, ends with the failure raised to the caller and with
\* context.values as it was: nothing is published for it.
C10_FailureLeavesValues ==
    \A t \in Tasks :
        /\ (Matched(t) /\ Handled(t) /\ Fails(t)) => result[t].kind = "raise"
        /\ result[t].kind = "raise" => values[t] = EmptyDict

\* the tokenizer failed on the second item of an embeddings input
C10_Witness ==
    /\ handler[1] = "azure_openai_embedding"
    /\ result[1] = TokenizerError
    /\ request[1].body["input"].type = "list"
    /\ Len(request[1].body["input"].v) = 2
    /\ ~TokenizerRaises(request[1].body["input"].v[1])
    /\ request[1].deployment \in missing_deployment_names

=============================================================================
